---------------------------- MODULE Spec2Model ----------------------------
(***************************************************************************)
(* zdm::basic_lock_wrapper<AContainedType, AMutexType>                     *)
(* (include/zdm/lock_wrapper.hpp): a value m_contained guarded by a mutex  *)
(* m_mutex, reached through with_lock(a_function).  AContainedType is int  *)
(* as in the unit tests; the three mutex kinds are the three               *)
(* specialisations of mutex_traits.                                        *)
(***************************************************************************)
EXTENDS Integers, Sequences, FiniteSets, TLC

(***************************************************************************)
(* Bounds of the model.                                                    *)
(***************************************************************************)
\* number of threads sharing the wrapper (number_of_threads in the test)
NumThreads == 2
\* with_lock calls the threads make in all
MaxCalls == 3
\* with_lock calls each thread of the multi-threaded test makes (25 there)
Iterations == 2

Threads == 1..NumThreads
\* "no thread"
NoThread == 0

\* values the wrapper is constructed with (the tests use 0 and 42)
InitialValues == {0, 42}
\* errors an operation may raise
Errors == {"E1", "E2"}

(***************************************************************************)
(* zdm::detail::function_traits and the two concepts.                      *)
(*                                                                         *)
(* A type AFunction is a record [form, args, call]:                        *)
(*   form "fn_ref"      R (&)(Args...)                                     *)
(*        "fn_ptr"      R (*)(Args...)                                     *)
(*        "fn"          R (Args...)                                        *)
(*        "fn_ptr_ref"  R (*&)(Args...)   (a named function pointer)       *)
(*        "class"       a closure type; call is the form of                *)
(*                      decltype(&AFunction::operator()):                  *)
(*                      "memfn_const"  R (Class::*)(Args...) const         *)
(*                      "memfn"        R (Class::*)(Args...)               *)
(*        "class_ref"   Closure &         (a named closure)                *)
(*   args: the parameter types, each one of ParamTypes, T being the        *)
(*   contained type.                                                       *)
(***************************************************************************)
ParamTypes == {"T&", "const T&", "T", "U&"}

\* no specialisation of function_traits matches: the primary template is
\* incomplete and naming ::arg_types is a substitution failure
NoTraits == <<"incomplete">>

FnType(form, args, call) == [form |-> form, args |-> args, call |-> call]

\* function_traits<F>::arg_types
function_traits(F) ==
    IF F.form \in {"fn_ref", "fn_ptr", "fn", "memfn_const"}
    THEN F.args
    ELSE NoTraits

\* decltype(&AFunction::operator()): a pointer-to-member type when AFunction
\* is a class type with one operator(), ill-formed otherwise
call_operator(F) ==
    IF F.form = "class"
    THEN FnType(F.call, F.args, "none")
    ELSE FnType("ill-formed", F.args, "none")

\* mutant: the requirement on tuple_size_v is missing, only the first
\* parameter is looked at
unary_with_any_arity(F, param) ==
    /\ function_traits(F) # NoTraits
    /\ Len(function_traits(F)) >= 1
    /\ function_traits(F)[1] = param

\* one alternative of the concepts: tuple_size_v<arg_types> == 1 and
\* tuple_element_t<0, arg_types> is exactly `param`
unary_with(F, param) ==
    /\ function_traits(F) # NoTraits
    /\ Len(function_traits(F)) = 1
    /\ function_traits(F)[1] = param

\* concepts::unary_reference_function<AFunction, T>
unary_reference_function(F) ==
    \/ unary_with(F, "T&")
    \/ unary_with(call_operator(F), "T&")

\* concepts::unary_const_reference_function<AFunction, T>
unary_const_reference_function(F) ==
    \/ unary_with(F, "const T&")
    \/ unary_with(call_operator(F), "const T&")

(***************************************************************************)
(* mutex_traits: the lock type of each overload, per mutex kind.           *)
(***************************************************************************)
MutexKinds == {"std::mutex", "std::shared_mutex", "std::recursive_mutex"}

\* mutant: the reader-writer specialisation names std::shared_lock for both
\* lock types
mutex_traits_shared_for_both(AMutexType) ==
    CASE AMutexType = "std::mutex" ->
            [unique_lock |-> "std::scoped_lock", shared_lock |-> "std::scoped_lock"]
      [] AMutexType = "std::shared_mutex" ->
            [unique_lock |-> "std::shared_lock", shared_lock |-> "std::shared_lock"]
      [] AMutexType = "std::recursive_mutex" ->
            [unique_lock |-> "std::scoped_lock", shared_lock |-> "std::scoped_lock"]

\* mutant: the reader-writer specialisation names std::unique_lock for both
\* lock types
mutex_traits_unique_for_both(AMutexType) ==
    CASE AMutexType = "std::mutex" ->
            [unique_lock |-> "std::scoped_lock", shared_lock |-> "std::scoped_lock"]
      [] AMutexType = "std::shared_mutex" ->
            [unique_lock |-> "std::unique_lock", shared_lock |-> "std::unique_lock"]
      [] AMutexType = "std::recursive_mutex" ->
            [unique_lock |-> "std::scoped_lock", shared_lock |-> "std::scoped_lock"]

\* mutant: every specialisation is a copy of the reader-writer one
mutex_traits_all_reader_writer(AMutexType) ==
    [unique_lock |-> "std::unique_lock", shared_lock |-> "std::shared_lock"]

mutex_traits(AMutexType) ==
    CASE AMutexType = "std::mutex" ->
            [unique_lock |-> "std::scoped_lock", shared_lock |-> "std::scoped_lock"]
      [] AMutexType = "std::shared_mutex" ->
            [unique_lock |-> "std::unique_lock", shared_lock |-> "std::shared_lock"]
      [] AMutexType = "std::recursive_mutex" ->
            [unique_lock |-> "std::scoped_lock", shared_lock |-> "std::scoped_lock"]


\* mutant: the two overloads declare each other's lock type
lock_type_swapped(AMutexType, overload) ==
    IF overload = "mutable"
    THEN mutex_traits(AMutexType).shared_lock
    ELSE mutex_traits(AMutexType).unique_lock

\* mutant: the mutable overload is a copy of the const one and declares a
\* shared_lock too
lock_type_always_shared(AMutexType, overload) ==
    mutex_traits(AMutexType).shared_lock

\* the lock type the mutable overload (line 218) or the const overload
\* (line 248) of with_lock declares
lock_type(AMutexType, overload) ==
    IF overload = "mutable"
    THEN mutex_traits(AMutexType).unique_lock
    ELSE mutex_traits(AMutexType).shared_lock

(***************************************************************************)
(* The mutex m_mutex: owner is the thread holding it exclusively (NoThread *)
(* when none), count its recursion depth (std::recursive_mutex), readers   *)
(* the threads holding it shared (std::shared_mutex).                      *)
(***************************************************************************)
Unlocked == [owner |-> NoThread, count |-> 0, readers |-> {}]

\* mutant: the recursive wrapper is built over a mutex that its owner cannot
\* lock again
can_lock_not_reentrant(m, AMutexType, t) ==
    CASE AMutexType = "std::mutex" -> m.owner = NoThread
      [] AMutexType = "std::shared_mutex" -> m.owner = NoThread /\ m.readers = {}
      [] AMutexType = "std::recursive_mutex" -> m.owner = NoThread

\* m.lock() returns for thread t only from such a state
can_lock(m, AMutexType, t) ==
    CASE AMutexType = "std::mutex" -> m.owner = NoThread
      [] AMutexType = "std::shared_mutex" -> m.owner = NoThread /\ m.readers = {}
      [] AMutexType = "std::recursive_mutex" -> m.owner \in {NoThread, t}

\* m.lock_shared() returns for thread t only from such a state
can_lock_shared(m, t) == m.owner = NoThread

\* the constructor of a lock of type L on m blocks until this holds
can_acquire(m, AMutexType, L, t) ==
    IF L = "std::shared_lock"
    THEN can_lock_shared(m, t)
    ELSE can_lock(m, AMutexType, t)

\* the mutex once the constructor of a lock of type L has returned
acquire(m, L, t) ==
    IF L = "std::shared_lock"
    THEN [m EXCEPT !.readers = @ \union {t}]
    ELSE [m EXCEPT !.owner = t, !.count = @ + 1]

\* mutant: the destructor of a shared lock leaves the thread among the
\* readers
release_leaking_shared(m, L, t) ==
    IF L = "std::shared_lock"
    THEN m
    ELSE [m EXCEPT !.owner = IF m.count = 1 THEN NoThread ELSE t,
                   !.count = @ - 1]

\* the mutex once the destructor of a lock of type L has run
release(m, L, t) ==
    IF L = "std::shared_lock"
    THEN [m EXCEPT !.readers = @ \ {t}]
    ELSE [m EXCEPT !.owner = IF m.count = 1 THEN NoThread ELSE t,
                   !.count = @ - 1]

(***************************************************************************)
(* Operations handed to with_lock.  An operation is a record               *)
(*   [type: its AFunction type, body: what it does].                       *)
(* Bodies:                                                                 *)
(*   "increment"        value += 1 (a read, then a write), returns nothing *)
(*   "get_incremented"  return value + 1                                   *)
(*   "increment_twice"  ++value; ++value;  (read, write, read, write):     *)
(*                      between its writes the value is half-changed       *)
(*   "throw"            raises an error                                    *)
(*   "relock"           calls with_lock(increment closure) on the same     *)
(*                      wrapper from inside the operation                  *)
(***************************************************************************)
Operation(form, args, call, body) ==
    [type |-> FnType(form, args, call), body |-> body]

\* how an operation can be handed over so that a specialisation exists
CallableForms == {<<"fn_ref", "none">>, <<"fn_ptr", "none">>, <<"class", "memfn_const">>}

\* []( int& value ) { value += 1; } and increment_value
IncrementOps ==
    {Operation(f[1], <<"T&">>, f[2], "increment") : f \in CallableForms}

\* []( const int& value ) { return value + 1; } and get_incremented_value
GetIncrementedOps ==
    {Operation(f[1], <<"const T&">>, f[2], "get_incremented") : f \in CallableForms}

\* a closure taking int& that only reads and returns value + 1
ReadThroughMutableOps ==
    {Operation("class", <<"T&">>, "memfn_const", "get_incremented")}

\* closures that raise one of Errors
ThrowingOps ==
    {Operation("class", <<p>>, "memfn_const", "throw") :
        p \in {"T&", "const T&"}}

\* a closure taking int& that calls with_lock again
RelockOps ==
    {Operation("class", <<"T&">>, "memfn_const", "relock")}

\* operations no overload of with_lock accepts
MalformedOps ==
    {Operation(f[1], a, f[2], "increment") :
        f \in CallableForms,
        a \in {<< >>, <<"T&", "T&">>, <<"const T&", "T&">>, <<"T">>, <<"U&">>}}
    \union
    {Operation(f[1], <<p>>, f[2], "increment") :
        f \in {<<"fn_ptr_ref", "none">>, <<"class_ref", "memfn_const">>,
               <<"class", "memfn">>, <<"class", "none">>},
        p \in {"T&", "const T&"}}

\* a closure changing the value in two steps: []( int& value ) { ++value; ++value; }
IncrementTwice == Operation("class", <<"T&">>, "memfn_const", "increment_twice")

\* the closure the multi-threaded test runs: []( int& value ) { ++value; }
TestIncrement == Operation("class", <<"T&">>, "memfn_const", "increment")

\* every operation of the model.  Locking a non-recursive mutex again from
\* the thread that owns it is undefined, so only an operation run on the
\* recursive wrapper calls with_lock from inside
Operations(kind) ==
    IncrementOps \union GetIncrementedOps \union ReadThroughMutableOps
    \union ThrowingOps \union MalformedOps
    \union (IF kind = "std::recursive_mutex" THEN RelockOps ELSE {})

\* what the concurrent threads hand to with_lock: the closures of the
\* tests, the closures that raise and the closure that calls with_lock
Closures(kind) ==
    {fn \in Operations(kind) \ (MalformedOps \union ReadThroughMutableOps) :
        fn.type.form = "class"}

\* the handle the call is made through: basic_lock_wrapper & or
\* const basic_lock_wrapper &
Handles == {"mutable", "const"}

\* mutant: the mutable overload is declared const as well, so it is viable
\* through either handle
overload_of_ignoring_handle(F, handle) ==
    IF unary_reference_function(F) THEN "mutable"
    ELSE IF unary_const_reference_function(F) THEN "const"
    ELSE "none"

\* overload resolution of with_lock: the mutable overload (lines 213-216) is
\* a non-const member constrained by unary_reference_function, the const
\* overload (lines 241-246) a const member constrained by
\* unary_const_reference_function; "none" when neither is viable
overload_of(F, handle) ==
    IF handle = "mutable" /\ unary_reference_function(F) THEN "mutable"
    ELSE IF unary_const_reference_function(F) THEN "const"
    ELSE "none"

(***************************************************************************)
(* State.                                                                  *)
(***************************************************************************)
VARIABLES
    AMutexType,     \* the mutex kind the wrapper is built over
    initializer,    \* how the wrapper was initialised: "direct" from
                    \* a_contained, or with no arguments: "default"
                    \* (wrapper w;) or "value" (wrapper w{};)
    a_contained,    \* the value the wrapper was constructed from
    m_contained,    \* the stored value
    m_mutex,        \* the mutex
    stack,          \* stack[t]: the with_lock calls thread t is inside,
                    \* innermost last
    calls,          \* with_lock calls made so far, by all threads
    i,              \* i[t]: the loop index of thread t of the test
    outcome         \* outcome[t]: what the last finished call gave t's code

vars == <<AMutexType, initializer, a_contained, m_contained, m_mutex, stack, calls, i, outcome>>

NoResult == [kind |-> "none", val |-> 0, err |-> "none"]
VoidResult == [kind |-> "void", val |-> 0, err |-> "none"]
ValueResult(v) == [kind |-> "value", val |-> v, err |-> "none"]
ErrorResult(e) == [kind |-> "error", val |-> 0, err |-> e]
Rejected == [kind |-> "rejected", val |-> 0, err |-> "none"]
\* what thread code read through operator* or operator->
Dereferenced(v) == [kind |-> "deref", val |-> v, err |-> "none"]

\* a with_lock call in progress
Frame(fn, overload) ==
    [a_function |-> fn, overload |-> overload, pc |-> "lock", tmp |-> 0,
     res |-> NoResult]

Top(t) == stack[t][Len(stack[t])]
Depth(t) == Len(stack[t])
SetTop(t, f) == [stack EXCEPT ![t] = [@ EXCEPT ![Len(@)] = f]]
Push(t, f) == [stack EXCEPT ![t] = Append(@, f)]

\* mutant: the constructor has no mem-initialiser for m_contained and
\* value-initialises it whatever the argument
Init_ignoring_argument ==
    /\ AMutexType \in MutexKinds
    /\ initializer = "direct"
    /\ a_contained \in InitialValues
    /\ m_contained = 0
    /\ m_mutex = [owner |-> 0, count |-> 0, readers |-> {}]
    /\ stack = [t \in Threads |-> << >>]
    /\ calls = 0
    /\ i = [t \in Threads |-> 0]
    /\ outcome = [t \in Threads |-> [kind |-> "none", val |-> 0, err |-> "none"]]

\* basic_lock_wrapper( AContainedType &&a_contained ): the value is moved in,
\* the mutex default-constructed
Init ==
    /\ AMutexType \in MutexKinds
    /\ initializer = "direct"
    /\ a_contained \in InitialValues
    /\ m_contained = a_contained
    /\ m_mutex = Unlocked
    /\ stack = [t \in Threads |-> << >>]
    /\ calls = 0
    /\ i = [t \in Threads |-> 0]
    /\ outcome = [t \in Threads |-> NoResult]


(***************************************************************************)
(* with_lock, step by step.  A frame's pc:                                 *)
(*   "lock"    entered, the lock's constructor has not returned            *)
(*   "invoke"  the lock is held, a_function( m_contained ) has been        *)
(*             entered and has not yet touched the value                   *)
(*   "write"   a_function has read the value and not yet written it        *)
(*   "write_first"  increment_twice has read the value for its first       *)
(*             increment and not yet written it                            *)
(*   "reread"  increment_twice has written once: the value is half-changed *)
(*   "nested"  a_function is waiting for the with_lock call it made        *)
(*   "unlock"  a_function has returned or raised, the lock's destructor    *)
(*             has not run                                                 *)
(*   "return"  the lock is destroyed, the caller has not got the result    *)
(***************************************************************************)

\* thread t's code calls wrapper.with_lock( fn ) through `handle`: the
\* overload is chosen at compile time; a call no overload accepts never runs
with_lock(t, fn, handle) ==
    /\ stack[t] = << >>
    /\ IF overload_of(fn.type, handle) = "none"
       THEN /\ outcome' = [outcome EXCEPT ![t] = Rejected]
            /\ stack' = stack
       ELSE /\ outcome' = [outcome EXCEPT ![t] = NoResult]
            /\ stack' = Push(t, Frame(fn, overload_of(fn.type, handle)))
    /\ UNCHANGED <<AMutexType, initializer, a_contained, m_contained, m_mutex>>

\* mutant: the lock is an unnamed temporary, destroyed before the operation
\* runs
lock_ctor_temporary(t) ==
    /\ stack[t] # << >>
    /\ Top(t).pc = "lock"
    /\ can_acquire(m_mutex, AMutexType, lock_type(AMutexType, Top(t).overload), t)
    /\ m_mutex' = m_mutex
    /\ stack' = SetTop(t, [Top(t) EXCEPT !.pc = "invoke"])
    /\ UNCHANGED <<AMutexType, initializer, a_contained, m_contained, calls, i, outcome>>

\* typename mutex_traits<AMutexType>::unique_lock lock( m_mutex );  or
\* typename mutex_traits<AMutexType>::shared_lock lock( m_mutex );
lock_ctor(t) ==
    /\ stack[t] # << >>
    /\ Top(t).pc = "lock"
    /\ can_acquire(m_mutex, AMutexType, lock_type(AMutexType, Top(t).overload), t)
    /\ m_mutex' = acquire(m_mutex, lock_type(AMutexType, Top(t).overload), t)
    /\ stack' = SetTop(t, [Top(t) EXCEPT !.pc = "invoke"])
    /\ UNCHANGED <<AMutexType, initializer, a_contained, m_contained, calls, i, outcome>>

\* mutant: with_lock takes the void branch for every operation and drops
\* the value the operation returns
invoke_discarding_result(t) ==
    /\ stack[t] # << >>
    /\ Top(t).pc = "invoke"
    /\ CASE Top(t).a_function.body = "increment" ->
              /\ stack' = SetTop(t, [Top(t) EXCEPT !.pc = "write",
                                                   !.tmp = m_contained])
         [] Top(t).a_function.body = "increment_twice" ->
              /\ stack' = SetTop(t, [Top(t) EXCEPT !.pc = "write_first",
                                                   !.tmp = m_contained])
         [] Top(t).a_function.body = "get_incremented" ->
              /\ stack' = SetTop(t, [Top(t) EXCEPT !.pc = "unlock",
                                                   !.res = VoidResult])
         [] Top(t).a_function.body = "throw" ->
              /\ \E e \in Errors :
                     stack' = SetTop(t, [Top(t) EXCEPT !.pc = "unlock",
                                                       !.res = ErrorResult(e)])
         [] Top(t).a_function.body = "relock" ->
              /\ stack' = [stack EXCEPT ![t] =
                     Append([@ EXCEPT ![Len(@)].pc = "nested"],
                            Frame(TestIncrement,
                                  overload_of(TestIncrement.type, "mutable")))]
    /\ UNCHANGED <<AMutexType, initializer, a_contained, m_contained, m_mutex, calls, i, outcome>>

\* a_function( m_contained ): the first step of the operation's body
invoke(t) ==
    /\ stack[t] # << >>
    /\ Top(t).pc = "invoke"
    /\ CASE Top(t).a_function.body = "increment" ->
              /\ stack' = SetTop(t, [Top(t) EXCEPT !.pc = "write",
                                                   !.tmp = m_contained])
         [] Top(t).a_function.body = "increment_twice" ->
              /\ stack' = SetTop(t, [Top(t) EXCEPT !.pc = "write_first",
                                                   !.tmp = m_contained])
         [] Top(t).a_function.body = "get_incremented" ->
              /\ stack' = SetTop(t, [Top(t) EXCEPT !.pc = "unlock",
                                         !.res = ValueResult(m_contained + 1)])
         [] Top(t).a_function.body = "throw" ->
              /\ \E e \in Errors :
                     stack' = SetTop(t, [Top(t) EXCEPT !.pc = "unlock",
                                                       !.res = ErrorResult(e)])
         [] Top(t).a_function.body = "relock" ->
              /\ stack' = [stack EXCEPT ![t] =
                     Append([@ EXCEPT ![Len(@)].pc = "nested"],
                            Frame(TestIncrement,
                                  overload_of(TestIncrement.type, "mutable")))]
    /\ UNCHANGED <<AMutexType, initializer, a_contained, m_contained, m_mutex, calls, i, outcome>>


\* ++value, the first of increment_twice: the value read, plus one, is stored
write_first(t) ==
    /\ stack[t] # << >>
    /\ Top(t).pc = "write_first"
    /\ m_contained' = Top(t).tmp + 1
    /\ stack' = SetTop(t, [Top(t) EXCEPT !.pc = "reread"])
    /\ UNCHANGED <<AMutexType, initializer, a_contained, m_mutex, calls, i, outcome>>

\* ++value, the second of increment_twice: the value is read again
reread(t) ==
    /\ stack[t] # << >>
    /\ Top(t).pc = "reread"
    /\ stack' = SetTop(t, [Top(t) EXCEPT !.pc = "write", !.tmp = m_contained])
    /\ UNCHANGED <<AMutexType, initializer, a_contained, m_contained, m_mutex, calls, i, outcome>>

\* mutant: the void branch of with_lock calls a_function a second time
\* instead of returning (once, the first time the value is changed)
write_then_invoke_again(t) ==
    /\ stack[t] # << >>
    /\ Top(t).pc = "write"
    /\ m_contained' = Top(t).tmp + 1
    /\ stack' = SetTop(t, [Top(t) EXCEPT
                   !.pc = IF m_contained = a_contained THEN "invoke" ELSE "unlock",
                   !.res = VoidResult])
    /\ UNCHANGED <<AMutexType, initializer, a_contained, m_mutex, calls, i, outcome>>

\* mutant: with_lock hands the operation a copy of m_contained, so the write
\* never reaches the stored value
write_to_copy(t) ==
    /\ stack[t] # << >>
    /\ Top(t).pc = "write"
    /\ m_contained' = m_contained
    /\ stack' = SetTop(t, [Top(t) EXCEPT !.pc = "unlock", !.res = VoidResult])
    /\ UNCHANGED <<AMutexType, initializer, a_contained, m_mutex, calls, i, outcome>>

\* value += 1, the write: the value read earlier, plus one, is stored
write(t) ==
    /\ stack[t] # << >>
    /\ Top(t).pc = "write"
    /\ m_contained' = Top(t).tmp + 1
    /\ stack' = SetTop(t, [Top(t) EXCEPT !.pc = "unlock", !.res = VoidResult])
    /\ UNCHANGED <<AMutexType, initializer, a_contained, m_mutex, calls, i, outcome>>

\* mutant: lock() and unlock() are called by hand around the operation, so
\* an exception skips the unlock()
lock_dtor_skipped_by_exception(t) ==
    /\ stack[t] # << >>
    /\ Top(t).pc = "unlock"
    /\ m_mutex' = IF Top(t).res.kind = "error"
                  THEN m_mutex
                  ELSE release(m_mutex, lock_type(AMutexType, Top(t).overload), t)
    /\ stack' = SetTop(t, [Top(t) EXCEPT !.pc = "return"])
    /\ UNCHANGED <<AMutexType, initializer, a_contained, m_contained, calls, i, outcome>>

\* mutant: lock() and unlock() are called by hand, and the void branch
\* returns before the unlock()
lock_dtor_skipped_by_void_return(t) ==
    /\ stack[t] # << >>
    /\ Top(t).pc = "unlock"
    /\ m_mutex' = IF Top(t).res.kind = "void"
                  THEN m_mutex
                  ELSE release(m_mutex, lock_type(AMutexType, Top(t).overload), t)
    /\ stack' = SetTop(t, [Top(t) EXCEPT !.pc = "return"])
    /\ UNCHANGED <<AMutexType, initializer, a_contained, m_contained, calls, i, outcome>>

\* the destructor of `lock`, run when with_lock's scope is left by the
\* return statement or by the operation's exception
lock_dtor(t) ==
    /\ stack[t] # << >>
    /\ Top(t).pc = "unlock"
    /\ m_mutex' = release(m_mutex, lock_type(AMutexType, Top(t).overload), t)
    /\ stack' = SetTop(t, [Top(t) EXCEPT !.pc = "return"])
    /\ UNCHANGED <<AMutexType, initializer, a_contained, m_contained, calls, i, outcome>>

\* what the operation that made a nested call does with its result: it
\* returns nothing, or lets the nested call's exception pass through
after_nested(frame, res) ==
    [frame EXCEPT !.pc = "unlock",
                  !.res = IF res.kind = "error" THEN res ELSE VoidResult]

\* mutant: with_lock catches the operation's exception and throws one of
\* its own
with_lock_return_rethrowing_other(t) ==
    /\ stack[t] # << >>
    /\ Top(t).pc = "return"
    /\ IF Depth(t) = 1
       THEN /\ outcome' = [outcome EXCEPT ![t] =
                   IF Top(t).res.kind = "error"
                   THEN ErrorResult("E1")
                   ELSE Top(t).res]
            /\ stack' = [stack EXCEPT ![t] = << >>]
       ELSE /\ outcome' = outcome
            /\ stack' = [stack EXCEPT ![t] =
                   Append(SubSeq(@, 1, Len(@) - 2),
                          after_nested(@[Len(@) - 1], Top(t).res))]
    /\ UNCHANGED <<AMutexType, initializer, a_contained, m_contained, m_mutex, calls, i>>

\* with_lock returns: the caller gets the operation's result or its
\* exception; the caller is thread t's own code, or the operation that made
\* the call
with_lock_return(t) ==
    /\ stack[t] # << >>
    /\ Top(t).pc = "return"
    /\ IF Depth(t) = 1
       THEN /\ outcome' = [outcome EXCEPT ![t] = Top(t).res]
            /\ stack' = [stack EXCEPT ![t] = << >>]
       ELSE /\ outcome' = outcome
            /\ stack' = [stack EXCEPT ![t] =
                   Append(SubSeq(@, 1, Len(@) - 2),
                          after_nested(@[Len(@) - 1], Top(t).res))]
    /\ UNCHANGED <<AMutexType, initializer, a_contained, m_contained, m_mutex, calls, i>>

(***************************************************************************)
(* The code around the wrapper.                                            *)
(***************************************************************************)

\* thread t's code makes one more with_lock call
call(t, fn, handle) ==
    /\ calls < MaxCalls
    /\ calls' = calls + 1
    /\ i' = i
    /\ with_lock(t, fn, handle)

\* one iteration of a thread of the multi-threaded test:
\* for_each( iota( 0, 25 ), increment_wrapper )
increment_wrapper(t) ==
    /\ i[t] < Iterations
    /\ i' = [i EXCEPT ![t] = @ + 1]
    /\ calls' = calls
    /\ with_lock(t, TestIncrement, "mutable")

\* threads running closures against one wrapper
Next ==
    \E t \in Threads :
        \/ \E fn \in Closures(AMutexType), handle \in Handles :
               call(t, fn, handle)
        \/ lock_ctor(t)
        \/ invoke(t)
        \/ write(t)
        \/ lock_dtor(t)
        \/ with_lock_return(t)

Spec == Init /\ [][Next]_vars

\* the multi-threaded test: every thread runs increment_wrapper Iterations
\* times
NextTest ==
    \E t \in Threads :
        \/ increment_wrapper(t)
        \/ lock_ctor(t)
        \/ invoke(t)
        \/ write(t)
        \/ lock_dtor(t)
        \/ with_lock_return(t)

SpecTest == Init /\ [][NextTest]_vars

\* one thread handing every kind of operation to with_lock, through either
\* handle
MainThread == CHOOSE t \in Threads : \A u \in Threads : t <= u

NextDispatch ==
    \/ \E fn \in Operations(AMutexType), handle \in Handles :
           call(MainThread, fn, handle)
    \/ lock_ctor(MainThread)
    \/ invoke(MainThread)
    \/ write(MainThread)
    \/ lock_dtor(MainThread)
    \/ with_lock_return(MainThread)

SpecDispatch == Init /\ [][NextDispatch]_vars


(***************************************************************************)
(* Unsynchronised access: operator* and operator->.                        *)
(***************************************************************************)

\* mutant: operator* locks the mutex around the read
operator_star_locking(t) ==
    /\ stack[t] = << >>
    /\ can_lock(m_mutex, AMutexType, t)
    /\ outcome' = [outcome EXCEPT ![t] = Dereferenced(m_contained)]
    /\ UNCHANGED <<AMutexType, initializer, a_contained, m_contained, m_mutex, stack, calls, i>>

\* thread t's code, outside with_lock, reads *wrapper: return m_contained;
operator_star(t) ==
    /\ stack[t] = << >>
    /\ outcome' = [outcome EXCEPT ![t] = Dereferenced(m_contained)]
    /\ UNCHANGED <<AMutexType, initializer, a_contained, m_contained, m_mutex, stack, calls, i>>

\* thread t's code, outside with_lock, reads through wrapper.operator->():
\* return &m_contained;
operator_arrow(t) ==
    /\ stack[t] = << >>
    /\ outcome' = [outcome EXCEPT ![t] = Dereferenced(m_contained)]
    /\ UNCHANGED <<AMutexType, initializer, a_contained, m_contained, m_mutex, stack, calls, i>>

\* threads incrementing the value through with_lock, by a function, a
\* function pointer or a closure, and reading it without the lock
NextAccess ==
    \E t \in Threads :
        \/ \E fn \in IncrementOps : call(t, fn, "mutable")
        \/ operator_star(t)
        \/ operator_arrow(t)
        \/ lock_ctor(t)
        \/ invoke(t)
        \/ write(t)
        \/ lock_dtor(t)
        \/ with_lock_return(t)

SpecAccess == Init /\ [][NextAccess]_vars


\* what the threads of NextMutation hand to with_lock: the closure that
\* changes the value in two steps, and closures that read it through a
\* read-only or a mutable reference
MutationOps ==
    {IncrementTwice}
    \union {fn \in GetIncrementedOps : fn.type.form = "class"}
    \union ReadThroughMutableOps

\* threads changing the value in two steps under the Exclusive lock, reading
\* it under either lock, and reading it without the lock
NextMutation ==
    \E t \in Threads :
        \/ \E fn \in MutationOps : call(t, fn, "mutable")
        \/ operator_star(t)
        \/ operator_arrow(t)
        \/ lock_ctor(t)
        \/ invoke(t)
        \/ write_first(t)
        \/ reread(t)
        \/ write(t)
        \/ lock_dtor(t)
        \/ with_lock_return(t)

SpecMutation == Init /\ [][NextMutation]_vars

\* closures that do not call back into the wrapper: the closures of the
\* tests and the closures that raise
WorkerOps == {fn \in Closures(AMutexType) : fn.body # "relock"}

\* one iteration of a thread that makes Iterations with_lock calls, each
\* with any of WorkerOps
worker(t, fn) ==
    /\ i[t] < Iterations
    /\ i' = [i EXCEPT ![t] = @ + 1]
    /\ calls' = calls
    /\ with_lock(t, fn, "mutable")

\* the steps of thread t
ThreadStep(t) ==
    \/ \E fn \in WorkerOps : worker(t, fn)
    \/ lock_ctor(t)
    \/ invoke(t)
    \/ write(t)
    \/ lock_dtor(t)
    \/ with_lock_return(t)

NextWorkers == \E t \in Threads : ThreadStep(t)

\* every thread that can take a step is eventually scheduled
SpecFair ==
    /\ Init
    /\ [][NextWorkers]_vars
    /\ \A t \in Threads : WF_vars(ThreadStep(t))

\* the handle each thread reaches the wrapper through: the first thread has
\* a const basic_lock_wrapper &, the others a basic_lock_wrapper &
handle_of(t) == IF t = MainThread THEN "const" ELSE "mutable"

\* the functions, function pointers and closures of the tests, handed to
\* with_lock by every thread through its handle
NextHandles ==
    \E t \in Threads :
        \/ \E fn \in IncrementOps \union GetIncrementedOps :
               call(t, fn, handle_of(t))
        \/ lock_ctor(t)
        \/ invoke(t)
        \/ write(t)
        \/ lock_dtor(t)
        \/ with_lock_return(t)

SpecHandles == Init /\ [][NextHandles]_vars

(***************************************************************************)
(* Construction with no arguments: basic_lock_wrapper() = default.         *)
(* m_contained has no default member initialiser, so the defaulted         *)
(* constructor default-initialises it.  For AContainedType = int:          *)
(*   wrapper w{};  value-initialisation: the object is zero-initialised    *)
(*                 first, m_contained is 0                                 *)
(*   wrapper w;    default-initialisation: m_contained is not initialised, *)
(*                 its value is indeterminate                              *)
(***************************************************************************)
\* AContainedType(): the value-initialised int
ValueInitialized == 0

\* what an int that was never initialised may turn out to hold
IndeterminateValues == {-1, 0, 7}

\* the value of m_contained when basic_lock_wrapper() has returned
defaulted_ctor(init) ==
    IF init = "value" THEN {ValueInitialized} ELSE IndeterminateValues

\* a wrapper constructed with no arguments; there is no a_contained, it
\* stands at AContainedType()
InitDefault ==
    /\ AMutexType \in MutexKinds
    /\ initializer \in {"default", "value"}
    /\ a_contained = ValueInitialized
    /\ m_contained \in defaulted_ctor(initializer)
    /\ m_mutex = Unlocked
    /\ stack = [t \in Threads |-> << >>]
    /\ calls = 0
    /\ i = [t \in Threads |-> 0]
    /\ outcome = [t \in Threads |-> NoResult]

\* the first uses of such a wrapper by the thread that constructed it: reads
\* without the lock, and with_lock calls that read or increment the value
NextDefault ==
    \/ \E fn \in IncrementOps \union GetIncrementedOps :
           call(MainThread, fn, "mutable")
    \/ operator_star(MainThread)
    \/ operator_arrow(MainThread)
    \/ lock_ctor(MainThread)
    \/ invoke(MainThread)
    \/ write(MainThread)
    \/ lock_dtor(MainThread)
    \/ with_lock_return(MainThread)

SpecDefault == InitDefault /\ [][NextDefault]_vars

(***************************************************************************)
(* Vocabulary of the properties.                                           *)
(***************************************************************************)

\* pcs at which control is inside a_function( m_contained )
InsidePcs == {"invoke", "write", "write_first", "reread", "nested"}
\* pcs at which the frame's lock object exists
LockedPcs == InsidePcs \union {"unlock"}

\* thread t is inside an operation with_lock runs in this mode:
\* "mutable" is Exclusive mode, "const" is Shared mode
Executing(t, mode) ==
    \E k \in 1..Len(stack[t]) :
        /\ stack[t][k].overload = mode
        /\ stack[t][k].pc \in InsidePcs

\* thread t is inside an operation of either mode
ExecutingAny(t) == Executing(t, "mutable") \/ Executing(t, "const")

\* thread t holds the mutex, in either way
Holds(t) == m_mutex.owner = t \/ t \in m_mutex.readers

\* thread t waits in the constructor of the lock of a call of this mode
Waiting(t, mode) ==
    /\ stack[t] # << >>
    /\ Top(t).pc = "lock"
    /\ Top(t).overload = mode

\* the operation has exactly one parameter, a mutable or a read-only
\* reference to the contained type
WellShaped(fn) ==
    /\ Len(fn.type.args) = 1
    /\ fn.type.args[1] \in {"T&", "const T&"}

(***************************************************************************)
(* C1.  For every mutex kind and every interleaving, no two different      *)
(* threads are inside an Exclusive-mode operation (one taking a mutable    *)
(* reference) on the wrapper at the same time.                             *)
(***************************************************************************)
C1_ExclusiveMutualExclusion ==
    \A t, u \in Threads :
        t # u => ~(Executing(t, "mutable") /\ Executing(u, "mutable"))

\* one thread is between the read and the write of an increment while
\* another waits for the lock of its own Exclusive-mode call
C1_Witness ==
    \E t, u \in Threads :
        /\ t # u
        /\ stack[t] # << >> /\ Top(t).pc = "write" /\ Top(t).overload = "mutable"
        /\ Waiting(u, "mutable")

(***************************************************************************)
(* C2.  For every mutex kind and every interleaving, no thread is inside a *)
(* Shared-mode operation (one taking a read-only reference) while another  *)
(* thread is inside an Exclusive-mode operation.                           *)
(***************************************************************************)
C2_SharedExcludesExclusive ==
    \A t, u \in Threads :
        t # u => ~(Executing(t, "const") /\ Executing(u, "mutable"))

\* a Shared-mode call waits while another thread is inside an Exclusive-mode
\* operation, and the other way round
C2_Witness ==
    \E t, u \in Threads :
        /\ t # u
        /\ AMutexType = "std::shared_mutex"
        /\ \/ Executing(t, "mutable") /\ Waiting(u, "const")
           \/ Executing(t, "const") /\ Waiting(u, "mutable")


(***************************************************************************)
(* C3.  No update is lost: when each of the NumThreads threads has made    *)
(* Iterations Exclusive-mode with_lock calls, each incrementing the value  *)
(* by a read followed by a write, and all threads have finished, the       *)
(* stored value is the initial value plus NumThreads * Iterations, in      *)
(* every interleaving.                                                     *)
(***************************************************************************)
AllJoined == \A t \in Threads : i[t] = Iterations /\ stack[t] = << >>

C3_NoLostUpdate ==
    AllJoined => m_contained = a_contained + NumThreads * Iterations

\* the test's run: the wrapper starts at 0 and all threads have been joined
C3_Witness ==
    /\ AllJoined
    /\ a_contained = 0
    /\ m_contained = NumThreads * Iterations

(***************************************************************************)
(* C8.  On the reader-writer wrapper a Shared-mode call is not blocked     *)
(* merely because other Shared-mode calls are in progress: whenever every  *)
(* call another thread has in progress is Shared-mode (none holds or waits *)
(* for the lock of an Exclusive-mode call), the constructor of a waiting   *)
(* Shared-mode call's lock can return.  (That two threads are inside       *)
(* Shared-mode operations at once is the witness.)                         *)
(***************************************************************************)
InExclusiveCall(t) ==
    \E k \in 1..Len(stack[t]) :
        /\ stack[t][k].overload = "mutable"
        /\ stack[t][k].pc \in LockedPcs \union {"lock"}

C8_SharedNotBlockedByShared ==
    AMutexType = "std::shared_mutex" =>
        \A u \in Threads :
            (/\ Waiting(u, "const")
             /\ \A t \in Threads \ {u} : ~InExclusiveCall(t))
            => ENABLED lock_ctor(u)

\* two threads are inside Shared-mode operations of the reader-writer
\* wrapper at the same time
C8_Witness ==
    /\ AMutexType = "std::shared_mutex"
    /\ \E t, u \in Threads :
           /\ t # u
           /\ Executing(t, "const") /\ Executing(u, "const")
           /\ {t, u} \subseteq m_mutex.readers

(***************************************************************************)
(* C9.  On the wrapper over the plain mutex or over the recursive mutex    *)
(* the calls of different threads are fully serialised: at most one thread *)
(* is inside a with_lock operation, Shared-mode or Exclusive-mode.         *)
(***************************************************************************)
C9_PlainAndRecursiveSerialize ==
    AMutexType \in {"std::mutex", "std::recursive_mutex"} =>
        \A t, u \in Threads :
            t # u => ~(ExecutingAny(t) /\ ExecutingAny(u))

\* on the plain wrapper a Shared-mode call waits for another thread's
\* Shared-mode operation to finish
C9_Witness ==
    /\ AMutexType = "std::mutex"
    /\ \E t, u \in Threads :
           t # u /\ Executing(t, "const") /\ Waiting(u, "const")


(***************************************************************************)
(* C4.  If the operation raises an error, the lock taken for the call is   *)
(* released by the time the error reaches the caller, in Exclusive and in  *)
(* Shared mode: a thread whose call is about to hand it an error, or has   *)
(* handed it one, does not hold the mutex; and a call made when no other   *)
(* call is in progress, such as the one right after the error, can acquire *)
(* the lock.                                                               *)
(***************************************************************************)
ErrorLeaving(t) ==
    /\ Depth(t) = 1
    /\ Top(t).pc = "return"
    /\ Top(t).res.kind = "error"

ErrorReceived(t) ==
    /\ stack[t] = << >>
    /\ outcome[t].kind = "error"

C4_ErrorReleasesLock ==
    \A t \in Threads :
        /\ (ErrorLeaving(t) \/ ErrorReceived(t)) => ~Holds(t)
        /\ (/\ Depth(t) = 1
            /\ Top(t).pc = "lock"
            /\ \A u \in Threads \ {t} : stack[u] = << >>)
           => ENABLED lock_ctor(t)

\* a Shared-mode call of the reader-writer wrapper has raised and is about
\* to hand the error to its caller, and another thread's Exclusive-mode call
\* has acquired the lock since
C4_Witness ==
    \E t, u \in Threads :
        /\ AMutexType = "std::shared_mutex"
        /\ ErrorLeaving(u) /\ Top(u).overload = "const"
        /\ Depth(t) = 1 /\ Top(t).overload = "mutable" /\ Top(t).pc = "invoke"
        /\ m_mutex.owner = t

(***************************************************************************)
(* C5.  An error raised by the operation reaches the caller of with_lock   *)
(* as that same error, in the order: lock acquired, operation raises, lock *)
(* released, error reaches the caller; with_lock produces no error of its  *)
(* own.  Step by step, for every thread t:                                 *)
(*  - an error appears in a call only when its operation raises, and the   *)
(*    lock is held at that moment;                                         *)
(*  - the next step of that call destroys the lock, releasing the mutex,   *)
(*    and leaves the error as it is;                                       *)
(*  - the caller receives an error only from a call that has released the  *)
(*    lock, and receives exactly the error the operation raised.           *)
(***************************************************************************)
Raises(t) ==
    /\ Depth(t) >= 1
    /\ Depth(t)' = Depth(t)
    /\ Top(t).res.kind # "error"
    /\ Top(t)'.res.kind = "error"

C5_ErrorStep(t) ==
    /\ Raises(t) =>
          /\ Top(t).pc = "invoke"
          /\ Top(t).a_function.body = "throw"
          /\ Holds(t)
          /\ Top(t)'.pc = "unlock"
    /\ (/\ Depth(t) = 1
        /\ Top(t).pc = "unlock"
        /\ Top(t).res.kind = "error"
        /\ stack'[t] # stack[t]) =>
          /\ Depth(t)' = 1
          /\ Top(t)'.pc = "return"
          /\ Top(t)'.res = Top(t).res
          /\ ~Holds(t)'
    /\ (ErrorLeaving(t) /\ stack'[t] # stack[t]) =>
          /\ stack'[t] = << >>
          /\ outcome'[t] = Top(t).res
    /\ (outcome'[t] # outcome[t] /\ outcome'[t].kind = "error") =>
          /\ ErrorLeaving(t)
          /\ ~Holds(t)
          /\ outcome'[t] = Top(t).res

C5_ErrorPropagatesUnchanged == [][\A t \in Threads : C5_ErrorStep(t)]_vars

\* a caller has received the error E2 its operation raised, and the mutex
\* is free
C5_Witness ==
    \E t \in Threads :
        /\ ErrorReceived(t)
        /\ outcome[t] = ErrorResult("E2")
        /\ m_mutex = Unlocked


(***************************************************************************)
(* C6.  The lock mode of a with_lock call follows from the operation's     *)
(* single parameter alone: with a mutable reference the call takes the     *)
(* Exclusive (unique) lock, with a read-only reference the Shared lock,    *)
(* equally for functions, function pointers and closures; and what the     *)
(* call returns and stores depends on what the operation does and not on   *)
(* which of the three it is.                                               *)
(***************************************************************************)
\* the mutex is held for t the way the Exclusive lock holds it
ExclusiveHeldBy(t) == m_mutex.owner = t /\ m_mutex.readers = {}

\* the mutex is held for t the way the Shared lock holds it: as a reader of
\* the reader-writer mutex, as the owner of the other two
SharedHeldBy(t) ==
    IF AMutexType = "std::shared_mutex"
    THEN t \in m_mutex.readers /\ m_mutex.owner = NoThread
    ELSE m_mutex.owner = t

\* the mode the parameter of a one-reference operation asks for
ModeOf(fn) == IF fn.type.args = <<"T&">> THEN "mutable" ELSE "const"

C6_FrameMode(t, f) ==
    /\ f.overload = ModeOf(f.a_function)
    /\ f.pc \in LockedPcs =>
          IF f.a_function.type.args = <<"T&">>
          THEN ExclusiveHeldBy(t)
          ELSE SharedHeldBy(t)

\* with one thread, the result and the stored value once the operation is
\* over, whatever the operation's form
C6_FrameResult(f) ==
    f.pc \in {"unlock", "return"} =>
        /\ f.a_function.body = "increment" =>
              f.res = VoidResult /\ m_contained = f.tmp + 1
        /\ f.a_function.body = "get_incremented" =>
              f.res = ValueResult(m_contained + 1)

\* functions, function pointers and closures with one call operator whose
\* single parameter is T & or const T &
OneReferenceOps ==
    {fn \in Operations(AMutexType) : WellShaped(fn) /\ fn.type.call # "none"}

\* a call made through a non-const handle with such an operation is a call
\* in the mode of the operation's parameter
C6_CallTakesMode(fn) ==
    call(MainThread, fn, "mutable") =>
        /\ Depth(MainThread)' = 1
        /\ Top(MainThread)'.a_function = fn
        /\ Top(MainThread)'.overload = ModeOf(fn)

C6_ModeFollowsParameter ==
    /\ [](\A t \in Threads : \A k \in 1..Len(stack[t]) :
              /\ C6_FrameMode(t, stack[t][k])
              /\ C6_FrameResult(stack[t][k]))
    /\ [][\A fn \in OneReferenceOps : C6_CallTakesMode(fn)]_vars

\* what does hold: the calls with_lock accepts are in the mode of their
\* parameter and give the result of their body, and with_lock accepts the
\* functions, function pointers and closures the tests hand to it
AcceptedCallsFollowParameter ==
    /\ \A fn \in IncrementOps \union GetIncrementedOps :
           overload_of(fn.type, "mutable") = ModeOf(fn)
    /\ \A t \in Threads : \A k \in 1..Len(stack[t]) :
           /\ C6_FrameMode(t, stack[t][k])
           /\ C6_FrameResult(stack[t][k])

(***************************************************************************)
(* C7.  An operation whose parameters are not exactly one mutable or       *)
(* read-only reference to the contained type is rejected before any lock   *)
(* is taken: no call in progress ever has such an operation, and a call    *)
(* made with one leaves the mutex, the stored value and the calls in       *)
(* progress as they were.                                                  *)
(***************************************************************************)
C7_Rejects(fn, handle) ==
    call(MainThread, fn, handle) =>
        /\ m_mutex' = m_mutex
        /\ m_contained' = m_contained
        /\ stack' = stack
        /\ outcome'[MainThread] = Rejected

C7_MalformedRejectedBeforeLocking ==
    /\ [](\A t \in Threads : \A k \in 1..Len(stack[t]) :
              WellShaped(stack[t][k].a_function))
    /\ [][\A fn \in Operations(AMutexType) : \A handle \in Handles :
              ~WellShaped(fn) => C7_Rejects(fn, handle)]_vars

\* every call made so far was rejected: nothing is locked, nothing changed
C7_Witness ==
    /\ calls = MaxCalls
    /\ outcome[MainThread] = Rejected
    /\ stack[MainThread] = << >>
    /\ m_mutex = Unlocked
    /\ m_contained = a_contained


(***************************************************************************)
(* C10.  A Shared-mode with_lock call never changes the stored value and   *)
(* returns the operation's result computed from it: when a read-only       *)
(* operation returning value + 1 is over and its lock not yet released,    *)
(* its result is the stored value plus one; no step of a Shared-mode call  *)
(* changes the stored value; and the caller receives that result.          *)
(***************************************************************************)
C10_ResultFromValue ==
    \A t \in Threads : \A k \in 1..Len(stack[t]) :
        (/\ stack[t][k].overload = "const"
         /\ stack[t][k].a_function.body = "get_incremented"
         /\ stack[t][k].pc = "unlock")
        => stack[t][k].res = ValueResult(m_contained + 1)

\* the step is one of a Shared-mode call of thread t
C10_SharedStep(t) ==
    /\ stack'[t] # stack[t]
    /\ \/ Depth(t) >= 1 /\ Top(t).overload = "const"
       \/ Depth(t)' >= 1 /\ Top(t)'.overload = "const"

C10_Step(t) ==
    /\ C10_SharedStep(t) => m_contained' = m_contained
    /\ (/\ C10_SharedStep(t)
        /\ Depth(t) = 1
        /\ Top(t).pc = "return"
        /\ Top(t).a_function.body = "get_incremented")
       => /\ outcome'[t] = Top(t).res
          /\ outcome'[t].kind = "value"

C10_SharedCallLeavesValue ==
    /\ []C10_ResultFromValue
    /\ [][\A t \in Threads : C10_Step(t)]_vars

\* the test's run: the only call made so far was the read-only operation on
\* a wrapper holding 42; its caller has 43 and the wrapper still holds 42
C10_Witness ==
    \E t \in Threads :
        /\ a_contained = 42
        /\ calls = 1
        /\ stack[t] = << >>
        /\ outcome[t] = ValueResult(43)
        /\ m_contained = 42

(***************************************************************************)
(* C11.  An Exclusive-mode with_lock call applies the operation to the     *)
(* stored value itself: when every call made so far was an increment and   *)
(* has returned, the stored value is the constructed value plus the number *)
(* of calls, and an unsynchronised read (operator* or operator->) made     *)
(* then yields exactly that: after one call on 42 it yields 43.            *)
(***************************************************************************)
\* no with_lock call is in progress
Quiescent == \A t \in Threads : stack[t] = << >>

\* thread t's code reads the wrapper in this step
Reads(t) ==
    /\ outcome'[t] # outcome[t]
    /\ outcome'[t].kind = "deref"

C11_Step(t) ==
    (Reads(t) /\ Quiescent) => outcome'[t] = Dereferenced(a_contained + calls)

C11_ExclusiveAppliesToStoredValue ==
    /\ [](Quiescent => m_contained = a_contained + calls)
    /\ [][\A t \in Threads : C11_Step(t)]_vars

\* the test's run: one thread has made the only call, on a wrapper holding
\* 42, and has read 43 since; the other threads have done nothing
C11_Witness ==
    \E t \in Threads :
        /\ a_contained = 42
        /\ calls = 1
        /\ Quiescent
        /\ outcome[t] = Dereferenced(43)
        /\ \A u \in Threads \ {t} : outcome[u] = NoResult

(***************************************************************************)
(* C12.  A wrapper constructed with no arguments holds the                 *)
(* value-initialised T (0 for int) and an unlocked mutex, so that the      *)
(* first read and the first with_lock call observe that value: before any  *)
(* with_lock call the stored value is 0, the mutex is free and an          *)
(* unsynchronised read yields 0; a first call returning value + 1 gives 1. *)
(***************************************************************************)
C12_DefaultConstructedIsValueInitialized ==
    /\ calls = 0 => m_contained = ValueInitialized /\ m_mutex = Unlocked
    /\ \A t \in Threads :
           /\ (calls = 0 /\ outcome[t].kind = "deref")
              => outcome[t] = Dereferenced(ValueInitialized)
           /\ (calls = 1 /\ outcome[t].kind = "value")
              => outcome[t] = ValueResult(ValueInitialized + 1)

\* what does hold: the mutex of a wrapper constructed with no arguments is
\* unlocked, and the stored value is 0 when the wrapper was
\* value-initialised (wrapper w{};)
DefaultConstructedMutexUnlocked ==
    calls = 0 =>
        /\ m_mutex = Unlocked
        /\ initializer = "value" => m_contained = ValueInitialized

(***************************************************************************)
(* C13.  Round trip of construction: a wrapper constructed from V stores   *)
(* V, and an unsynchronised read (operator* or operator->) made before any *)
(* with_lock call yields exactly V.                                        *)
(***************************************************************************)
C13_ConstructThenReadRoundTrip ==
    calls = 0 =>
        /\ m_contained = a_contained
        /\ \A t \in Threads :
               outcome[t].kind = "deref" => outcome[t] = Dereferenced(a_contained)

\* a wrapper was constructed from 42 and a thread has read 42 from it, no
\* with_lock call having been made
C13_Witness ==
    \E t \in Threads :
        /\ initializer = "direct"
        /\ a_contained = 42
        /\ calls = 0
        /\ outcome[t] = Dereferenced(42)

(***************************************************************************)
(* C14.  Unsynchronised access (operator*, operator->) does no locking: a  *)
(* thread outside with_lock can always make it, whoever holds the mutex;   *)
(* it yields the stored value as it is at that moment and leaves the       *)
(* mutex, the stored value and the calls in progress as they were.  So it  *)
(* can overlap an Exclusive-mode operation of another thread (the          *)
(* witness: it reads a half-changed value).                                *)
(***************************************************************************)
C14_ReadStep(t) ==
    Reads(t) =>
        /\ outcome'[t] = Dereferenced(m_contained)
        /\ m_mutex' = m_mutex
        /\ m_contained' = m_contained
        /\ stack' = stack

C14_UnsynchronizedAccessTakesNoLock ==
    /\ [](\A t \in Threads :
              stack[t] = << >> =>
                  ENABLED operator_star(t) /\ ENABLED operator_arrow(t))
    /\ [][\A t \in Threads : C14_ReadStep(t)]_vars

\* the only call made so far is inside increment_twice, between its two
\* writes and holding the Exclusive lock, and another thread has read the
\* half-changed value without the lock
C14_Witness ==
    \E t, u \in Threads :
        /\ t # u
        /\ calls = 1
        /\ Depth(u) = 1 /\ Top(u).pc = "reread" /\ ExclusiveHeldBy(u)
        /\ outcome[t] = Dereferenced(a_contained + 1)

(***************************************************************************)
(* C15.  No synchronised operation observes the value mid-mutation.  The   *)
(* Exclusive-mode operations here change the value in two steps, by one    *)
(* each, so the values the store holds between complete Exclusive-mode     *)
(* operations are the constructed value plus an even number, and the       *)
(* half-changed ones the constructed value plus an odd number.  Every      *)
(* value an operation run by with_lock is about to read or has read on     *)
(* entry, and every value a result was computed from, is of the first      *)
(* kind.                                                                   *)
(***************************************************************************)
\* v is a value the store holds between two complete Exclusive-mode
\* operations
Committed(v) == v >= a_contained /\ (v - a_contained) % 2 = 0

C15_FrameObserves(f) ==
    /\ f.pc = "invoke" => Committed(m_contained)
    /\ f.pc = "write_first" => Committed(f.tmp)
    /\ f.res.kind = "value" => Committed(f.res.val - 1)

C15_NeverObservedMidMutation ==
    \A t \in Threads :
        /\ \A k \in 1..Len(stack[t]) : C15_FrameObserves(stack[t][k])
        /\ outcome[t].kind = "value" => Committed(outcome[t].val - 1)

\* on the reader-writer wrapper an Exclusive-mode operation is between its
\* two writes, the stored value half-changed, while a Shared-mode call of
\* another thread waits for the lock
C15_Witness ==
    \E t, u \in Threads :
        /\ t # u
        /\ AMutexType = "std::shared_mutex"
        /\ Depth(u) = 1 /\ Top(u).pc = "reread"
        /\ ~Committed(m_contained)
        /\ Waiting(t, "const")

(***************************************************************************)
(* C16.  Lock balance: in every reachable state the mutex is held by       *)
(* exactly the threads that are inside a with_lock call past acquisition   *)
(* and before release, each in the mode of its call: an Exclusive-mode     *)
(* call holds it exclusively, a Shared-mode call as a reader of the        *)
(* reader-writer mutex and exclusively on the other two; the owner's       *)
(* recursion count is the number of such calls it is inside.  When no      *)
(* call is in progress the mutex is free, whether the calls returned       *)
(* normally or with an error.                                              *)
(***************************************************************************)
\* the calls of thread t whose lock object exists
LockedFrames(t) == {k \in 1..Len(stack[t]) : stack[t][k].pc \in LockedPcs}

C16_HeldInMode(t) ==
    \A k \in LockedFrames(t) :
        IF stack[t][k].overload = "mutable"
        THEN ExclusiveHeldBy(t)
        ELSE SharedHeldBy(t)

C16_HolderIsInside(t) ==
    /\ t \in m_mutex.readers =>
          \E k \in LockedFrames(t) : stack[t][k].overload = "const"
    /\ m_mutex.owner = t => m_mutex.count = Cardinality(LockedFrames(t))
    /\ m_mutex.owner = t => LockedFrames(t) # {}

C16_LockBalance ==
    /\ \A t \in Threads : C16_HeldInMode(t) /\ C16_HolderIsInside(t)
    /\ m_mutex.owner = NoThread => m_mutex.count = 0
    /\ Quiescent => m_mutex = Unlocked

\* no call is in progress and the mutex is free, one thread's last call
\* having returned with an error and another's normally
C16_Witness ==
    \E t, u \in Threads :
        /\ Quiescent
        /\ m_mutex = Unlocked
        /\ outcome[t].kind = "error"
        /\ outcome[u].kind \in {"void", "value"}

(***************************************************************************)
(* C17.  Deadlock freedom and termination.  Every thread makes Iterations  *)
(* with_lock calls on the one wrapper, with any mix of Shared-mode and     *)
(* Exclusive-mode operations, each terminating (normally or with an error) *)
(* without calling back into the wrapper.  Then, for each mutex kind: in   *)
(* every reachable state in which some thread has not finished, some       *)
(* thread can take a step; and if every thread that can take a step        *)
(* eventually does, all threads finish all their calls.                    *)
(***************************************************************************)
C17_DeadlockFreeAndTerminates ==
    /\ [](~AllJoined => ENABLED NextWorkers)
    /\ <>[]AllJoined

\* all threads have finished, calls having returned values and errors and
\* incremented the stored value
C17_Witness ==
    /\ AllJoined
    /\ m_contained > a_contained
    /\ \E t, u \in Threads :
           /\ outcome[t].kind = "error"
           /\ outcome[u].kind = "value"

(***************************************************************************)
(* C18.  Through a const handle only Shared-mode operations are accepted.  *)
(* The first thread reaches the wrapper through a const handle, the others *)
(* through non-const ones.  A call of the first thread with an operation   *)
(* taking a mutable reference is rejected; its calls in progress are all   *)
(* Shared-mode, it never holds the mutex the way the Exclusive lock does   *)
(* on the reader-writer wrapper, and no step of it changes the stored      *)
(* value.  A call of another thread is accepted with either kind of        *)
(* operation, in the mode of the operation's parameter, and holds the      *)
(* mutex in that mode.                                                     *)
(***************************************************************************)
C18_ConstHandleState ==
    /\ \A k \in 1..Len(stack[MainThread]) :
           stack[MainThread][k].overload = "const"
    /\ AMutexType = "std::shared_mutex" => m_mutex.owner # MainThread
    /\ outcome[MainThread].kind \in {"none", "value", "rejected"}
    /\ \A t \in Threads : C16_HeldInMode(t)

C18_CallStep(t, fn) ==
    call(t, fn, handle_of(t)) =>
        IF t = MainThread /\ fn.type.args = <<"T&">>
        THEN stack' = stack /\ outcome'[t] = Rejected /\ m_mutex' = m_mutex
        ELSE /\ Depth(t)' = 1
             /\ Top(t)'.a_function = fn
             /\ Top(t)'.overload = ModeOf(fn)

C18_Step ==
    /\ stack'[MainThread] # stack[MainThread] => m_contained' = m_contained
    /\ \A t \in Threads : \A fn \in IncrementOps \union GetIncrementedOps :
           C18_CallStep(t, fn)

C18_ConstHandleOnlyShared ==
    /\ []C18_ConstHandleState
    /\ [][C18_Step]_vars

\* the first thread's call with a mutable-reference operation has been
\* rejected, while another thread is inside such an operation, holding the
\* Exclusive lock
C18_Witness ==
    \E u \in Threads \ {MainThread} :
        /\ outcome[MainThread] = Rejected
        /\ stack[MainThread] = << >>
        /\ Depth(u) = 1 /\ Top(u).pc = "write" /\ Top(u).overload = "mutable"
        /\ ExclusiveHeldBy(u)

(***************************************************************************)
(* C19.  On the recursive wrapper an operation running inside with_lock    *)
(* may call with_lock again from the same thread.  The nested call does    *)
(* not block: the constructor of its lock can return at once, and at every *)
(* later point of the nested call the thread has a step to take.  While    *)
(* any call of the owning thread, nested or outermost, has its lock, the   *)
(* thread owns the mutex with a recursion count equal to the number of     *)
(* such calls, no other thread has a lock and no waiting thread can        *)
(* acquire; the mutex is free only when that number is zero.               *)
(***************************************************************************)
C19_Nested(t) ==
    Depth(t) = 2 =>
        /\ m_mutex.owner = t
        /\ Top(t).pc = "lock" => ENABLED lock_ctor(t)
        /\ \/ ENABLED lock_ctor(t)
           \/ ENABLED invoke(t)
           \/ ENABLED write(t)
           \/ ENABLED lock_dtor(t)
           \/ ENABLED with_lock_return(t)

C19_Excludes(t) ==
    LockedFrames(t) # {} =>
        /\ m_mutex.owner = t
        /\ m_mutex.count = Cardinality(LockedFrames(t))
        /\ \A u \in Threads \ {t} :
               /\ LockedFrames(u) = {}
               /\ (stack[u] # << >> /\ Top(u).pc = "lock")
                  => ~ENABLED lock_ctor(u)

C19_RecursiveReentry ==
    AMutexType = "std::recursive_mutex" =>
        /\ \A t \in Threads : C19_Nested(t) /\ C19_Excludes(t)
        /\ m_mutex = Unlocked <=> \A t \in Threads : LockedFrames(t) = {}

\* the nested call of a thread is between the read and the write of its
\* increment, the mutex locked twice by that thread, while another thread
\* waits for the lock
C19_Witness ==
    \E t, u \in Threads :
        /\ t # u
        /\ AMutexType = "std::recursive_mutex"
        /\ Depth(t) = 2 /\ Top(t).pc = "write"
        /\ m_mutex.owner = t /\ m_mutex.count = 2
        /\ stack[u] # << >> /\ Top(u).pc = "lock"

(***************************************************************************)
(* C20.  Each accepted with_lock call invokes the operation exactly once,  *)
(* after the lock is acquired and before it is released, and returns what  *)
(* that invocation produced.  Step by step, for every call of every        *)
(* thread: the call starts waiting for the lock; from there it can only    *)
(* acquire the lock and enter the operation; the operation is entered in   *)
(* no other way, so once per call; it holds the lock as long as it runs;   *)
(* its result (the stored value plus one for the reading operation,        *)
(* nothing for the incrementing one, or an error) is fixed when it ends    *)
(* and not changed by the release; the call returns only after the         *)
(* release, handing that result to its caller.                             *)
(***************************************************************************)
\* the innermost call of thread t goes from pc `from` to pc `to`
C20_Moves(t, from, to) ==
    /\ Depth(t)' = Depth(t)
    /\ Top(t).pc = from
    /\ Top(t)'.pc = to
    /\ Top(t)'.a_function = Top(t).a_function
    /\ Top(t)'.overload = Top(t).overload

C20_SameCall(t) ==
    \/ /\ C20_Moves(t, "lock", "invoke")
       /\ ~Holds(t) \/ AMutexType = "std::recursive_mutex"
       /\ Holds(t)'
       /\ Top(t)'.res = NoResult
    \/ /\ C20_Moves(t, "invoke", "write")
       /\ Top(t).a_function.body = "increment"
       /\ Top(t)'.res = NoResult
    \/ /\ C20_Moves(t, "write", "unlock")
       /\ Top(t)'.res = VoidResult
    \/ /\ C20_Moves(t, "invoke", "unlock")
       /\ \/ /\ Top(t).a_function.body = "get_incremented"
             /\ Top(t)'.res = ValueResult(m_contained + 1)
          \/ /\ Top(t).a_function.body = "throw"
             /\ Top(t)'.res.kind = "error"
    \/ /\ C20_Moves(t, "unlock", "return")
       /\ Top(t)'.res = Top(t).res
       /\ Top(t).res # NoResult
       /\ m_mutex'.count = m_mutex.count - 1 \/ t \in m_mutex.readers \ m_mutex'.readers

C20_Step(t) ==
    stack'[t] # stack[t] =>
        \/ C20_SameCall(t)
        \/ /\ Depth(t)' = Depth(t) + 1
           /\ Top(t)'.pc = "lock"
           /\ Depth(t) >= 1 =>
                 /\ Top(t).pc = "invoke"
                 /\ stack'[t][Depth(t)].pc = "nested"
        \/ /\ Depth(t)' = Depth(t) - 1
           /\ Top(t).pc = "return"
           /\ IF Depth(t) = 1
              THEN outcome'[t] = Top(t).res
              ELSE /\ stack[t][Depth(t) - 1].pc = "nested"
                   /\ Top(t)'.pc = "unlock"

C20_InvokedOnceUnderLock ==
    /\ [](\A t \in Threads : \A k \in 1..Len(stack[t]) :
              stack[t][k].pc \in InsidePcs => Holds(t))
    /\ [][\A t \in Threads : C20_Step(t)]_vars

\* two calls have been made and have returned: a reading one that gave its
\* caller the stored value plus one, and an incrementing one that gave
\* nothing
C20_Witness ==
    \E t, u \in Threads :
        /\ calls = 2
        /\ Quiescent
        /\ outcome[t] = ValueResult(a_contained + 1)
        /\ outcome[u] = VoidResult
        /\ m_contained = a_contained + 1

=============================================================================
